---- MODULE Spec2Model ----
(***************************************************************************)
(* Model of video_to_gif.py: the two-pass palette/encode pipeline          *)
(* (convert_video_to_gif), the batch and directory drivers of main(), and  *)
(* a filesystem shared by every call.                                      *)
(*                                                                         *)
(* Paths, filter stages and command lines are strings, built with the same *)
(* concatenations the code performs.  A float is held in tenths (20 is     *)
(* 2.0) and printed by FmtFloat.  The external encoder is the environment: *)
(* its exit status and the success of os.remove are chosen freely.         *)
(***************************************************************************)
EXTENDS Integers, Sequences, FiniteSets, TLC

VARIABLES
    fs,               \* path -> content of the file at that path
    fs0,              \* the filesystem before the first step (history)
    frame,            \* call id -> activation of convert_video_to_gif
    mode,             \* "direct", "batch" or "directory": who calls convert_video_to_gif
    args,             \* the parsed command line of main()
    batch_lines,      \* the lines of the batch file / the entries of the walked directory
    input_files,      \* main(): input_files
    idx,              \* main(): position of the driver's for loop (1-based)
    dpc,              \* main(): control point of the driver
    success_count,    \* main(): success_count
    processed_count,  \* main(): processed_count (directory mode)
    attempted,        \* indices the driver's loop body has been entered for (history)
    summary           \* the numbers printed by the final summary, <<>> before it

vars == <<fs, fs0, frame, mode, args, batch_lines, input_files, idx, dpc,
          success_count, processed_count, attempted, summary>>

driverVars == <<mode, args, batch_lines, input_files, idx, dpc,
                success_count, processed_count, attempted, summary>>

----------------------------------------------------------------------------
(* Bounds *)

MaxJobs == 3

----------------------------------------------------------------------------
(* Python values *)

None == <<>>
Some(v) == <<v>>

DefaultFps == 10
DefaultQuality == 90
DefaultSpeed == 10

\* str.startswith
startswith(s, prefix) ==
    /\ Len(s) >= Len(prefix)
    /\ SubSeq(s, 1, Len(prefix)) = prefix

RECURSIVE rfindFrom(_, _, _)
rfindFrom(p, ch, k) ==
    IF k = 0 THEN 0
    ELSE IF SubSeq(p, k, k) = ch THEN k
    ELSE rfindFrom(p, ch, k - 1)

\* str.rfind for one character, 1-based, 0 when absent
rfind(p, ch) == rfindFrom(p, ch, Len(p))

RECURSIVE allDots(_, _, _)
allDots(p, from, to) ==
    IF from >= to THEN TRUE
    ELSE SubSeq(p, from, from) = "." /\ allDots(p, from + 1, to)

\* os.path.splitext: <<root, ext>>
splitext(p) ==
    LET sepIndex == rfind(p, "/")
        dotIndex == rfind(p, ".")
    IN  IF dotIndex > sepIndex /\ ~allDots(p, sepIndex + 1, dotIndex)
        THEN <<SubSeq(p, 1, dotIndex - 1), SubSeq(p, dotIndex, Len(p))>>
        ELSE <<p, "">>

\* os.path.basename
basename(p) == SubSeq(p, rfind(p, "/") + 1, Len(p))

\* os.path.dirname / Path.parent
dirname(p) == SubSeq(p, 1, rfind(p, "/") - 1)

\* os.path.join of a directory and a file name
join(d, f) == d \o "/" \o f

IsSpace(ch) == ch \in {" ", "\n", "\t"}

RECURSIVE lstrip(_)
lstrip(s) ==
    IF Len(s) > 0 /\ IsSpace(SubSeq(s, 1, 1)) THEN lstrip(SubSeq(s, 2, Len(s))) ELSE s

RECURSIVE rstrip(_)
rstrip(s) ==
    IF Len(s) > 0 /\ IsSpace(SubSeq(s, Len(s), Len(s)))
    THEN rstrip(SubSeq(s, 1, Len(s) - 1)) ELSE s

\* str.strip
strip(s) == rstrip(lstrip(s))

RECURSIVE strjoin(_, _)
\* sep.join(list)
strjoin(sep, list) ==
    IF list = <<>> THEN ""
    ELSE IF Len(list) = 1 THEN list[1]
    ELSE list[1] \o sep \o strjoin(sep, Tail(list))

\* f"{x}" of a float held in tenths
FmtFloat(t) == ToString(t \div 10) \o "." \o ToString(t % 10)

\* 1/speed of a float held in tenths (exact for the speeds of the model)
Reciprocal(t) == 100 \div t

----------------------------------------------------------------------------
(* convert_video_to_gif: the filter chain and the two command lines *)

\* the filters list with the resize stage appended before the timestamp stage
FilterChain_ScaleFirst(width, fps, speed) ==
    LET setpts == IF speed # 10
                  THEN IF speed > 10
                       THEN <<"setpts=PTS/" \o FmtFloat(speed)>>
                       ELSE <<"setpts=PTS*" \o FmtFloat(Reciprocal(speed))>>
                  ELSE <<>>
        scale  == IF width # None /\ width[1] # 0
                  THEN <<"scale=" \o ToString(width[1]) \o ":-1:flags=lanczos">>
                  ELSE <<>>
    IN  scale \o setpts \o <<"fps=" \o ToString(fps)>>

\* the filters list
FilterChain(width, fps, speed) ==
    LET setpts == IF speed # 10
                  THEN IF speed > 10
                       THEN <<"setpts=PTS/" \o FmtFloat(speed)>>
                       ELSE <<"setpts=PTS*" \o FmtFloat(Reciprocal(speed))>>
                  ELSE <<>>
        scale  == IF width # None /\ width[1] # 0
                  THEN <<"scale=" \o ToString(width[1]) \o ":-1:flags=lanczos">>
                  ELSE <<>>
    IN  setpts \o scale \o <<"fps=" \o ToString(fps)>>

\* palette_filters that keeps every stage of filters
PaletteFilters_KeepFps(filters) == filters

\* palette_filters
PaletteFilters(filters) == SelectSeq(filters, LAMBDA f : ~startswith(f, "fps="))

\* a palette_file that does not depend on the output path
PaletteFile_Shared(output_file) == "out/first_palette.png"

\* palette_file
PaletteFile(output_file) == splitext(output_file)[1] \o "_palette.png"

\* output_file after the default is applied
ResolveOutput(input_file, output_file) ==
    IF output_file = None THEN splitext(input_file)[1] \o ".gif" ELSE output_file[1]

\* palette_cmd
PaletteCmd(input_file, output_file, width, fps, quality, speed) ==
    LET palette_filters == PaletteFilters(FilterChain(width, fps, speed))
        vf == IF palette_filters # <<>>
              THEN strjoin(",", palette_filters)
                       \o ",palettegen=max_colors=" \o ToString(quality)
              ELSE "palettegen=max_colors=" \o ToString(quality)
    IN  <<"ffmpeg", "-i", input_file, "-vf", vf, "-y", PaletteFile(output_file)>>

\* final_cmd
FinalCmd(input_file, output_file, width, fps, loop, speed) ==
    LET filters == FilterChain(width, fps, speed)
        lavfi == IF filters # <<>>
                 THEN strjoin(",", filters) \o "[x];[x][1:v]paletteuse"
                 ELSE "[0:v][1:v]paletteuse"
    IN  <<"ffmpeg", "-i", input_file, "-i", PaletteFile(output_file),
          "-lavfi", lavfi, "-loop", ToString(loop), "-y", output_file>>

----------------------------------------------------------------------------
(* The filesystem *)

Absent == [kind |-> "absent", by |-> 0]
Video == [kind |-> "video", by |-> 0]
UserFile == [kind |-> "user", by |-> 0]
PaletteBy(c) == [kind |-> "palette", by |-> c]
GifBy(c) == [kind |-> "gif", by |-> c]

\* os.path.exists
exists(p) == fs[p].kind # "absent"

\* the paths of the model
SourcePaths == {"in/a.mp4", "in/a.mov", "in/b.mp4", "in/sub/a.mp4", "in/gone.mp4", "in/n.txt"}
OutputDirs == {"out"}
OutputPaths ==
    {splitext(s)[1] \o ".gif" : s \in SourcePaths}
        \cup {join(d, basename(splitext(s)[1]) \o ".gif") : d \in OutputDirs, s \in SourcePaths}
        \cup {"out/first.gif"}
AllPaths == SourcePaths \cup OutputPaths \cup {PaletteFile(o) : o \in OutputPaths}

----------------------------------------------------------------------------
(* One activation of convert_video_to_gif *)

NoErr == [type |-> "", cmd |-> <<>>, text |-> ""]

\* the frame of a call that has been made and has not run yet
NewFrame(input_file, output_file, width, fps, quality, loop, speed) ==
    [pc |-> "enter",
     input_file |-> input_file, output_file |-> output_file, width |-> width,
     fps |-> fps, quality |-> quality, loop |-> loop, speed |-> speed,
     procs |-> <<>>, result |-> None, err |-> NoErr, remove_failed |-> FALSE]

\* the frame of a call that has not been made
IdleFrame == [NewFrame("", None, None, DefaultFps, DefaultQuality, 0, DefaultSpeed)
                 EXCEPT !.pc = "idle"]

palette_file(c) == PaletteFile(frame[c].output_file[1])

palette_cmd(c) ==
    LET f == frame[c]
    IN  PaletteCmd(f.input_file, f.output_file[1], f.width, f.fps, f.quality, f.speed)

final_cmd(c) ==
    LET f == frame[c]
    IN  FinalCmd(f.input_file, f.output_file[1], f.width, f.fps, f.loop, f.speed)

\* a process started by subprocess.run; rc is -1 while it runs
Running(cmd, palette_in) ==
    [cmd |-> cmd, rc |-> -1, stderr |-> "", palette_in |-> palette_in]

\* what the encoder writes to its diagnostic stream when it fails
Diagnostic(cmd) == "ffmpeg: error writing " \o cmd[Len(cmd)]

Exited(proc, rc) ==
    [proc EXCEPT !.rc = rc, !.stderr = IF rc = 0 THEN "" ELSE Diagnostic(proc.cmd)]

CalledProcessError(proc) == [type |-> "CalledProcessError", cmd |-> proc.cmd, text |-> proc.stderr]
InputNotFound(input_file) ==
    [type |-> "FileNotFoundError", cmd |-> <<>>, text |-> "Input file not found: " \o input_file]
SpawnFailed == [type |-> "OSError", cmd |-> <<>>, text |-> "cannot execute ffmpeg"]
RemoveFailed(p) == [type |-> "OSError", cmd |-> <<>>, text |-> "cannot remove " \o p]

\* the entry of the function without the existence check of lines 24-25
Enter_NoExistsCheck(c) ==
    /\ frame[c].pc = "enter"
    /\ frame' = [frame EXCEPT
                    ![c].pc = "pass1",
                    ![c].output_file =
                        Some(ResolveOutput(frame[c].input_file, frame[c].output_file))]
    /\ UNCHANGED <<fs, fs0, driverVars>>

\* lines 24-81: the existence check, the default output, the two command lines
Enter(c) ==
    /\ frame[c].pc = "enter"
    /\ IF ~exists(frame[c].input_file)
       THEN frame' = [frame EXCEPT ![c].pc = "done",
                                   ![c].err = InputNotFound(frame[c].input_file)]
       ELSE frame' = [frame EXCEPT
                        ![c].pc = "pass1",
                        ![c].output_file =
                            Some(ResolveOutput(frame[c].input_file, frame[c].output_file))]
    /\ UNCHANGED <<fs, fs0, driverVars>>

\* line 85: subprocess.run(palette_cmd) starts the encoder
Pass1_Spawn(c) ==
    /\ frame[c].pc = "pass1"
    /\ frame' = [frame EXCEPT
                    ![c].pc = "run1",
                    ![c].procs = Append(@, Running(palette_cmd(c), Absent))]
    /\ UNCHANGED <<fs, fs0, driverVars>>

\* the exit of pass 1 with the exit status ignored (check=False)
Pass1_Exit_Unchecked(c) ==
    /\ frame[c].pc = "run1"
    /\ \E rc \in {0, 1}, wrote \in BOOLEAN :
        LET proc == Exited(frame[c].procs[1], rc)
            out == proc.cmd[Len(proc.cmd)]
        IN  /\ rc = 0 => wrote
            /\ fs' = IF wrote THEN [fs EXCEPT ![out] = PaletteBy(c)] ELSE fs
            /\ frame' = [frame EXCEPT ![c].procs = <<proc>>, ![c].pc = "pass2"]
    /\ UNCHANGED <<fs0, driverVars>>

\* line 85: the encoder exits; check=True raises on a non-zero status
Pass1_Exit(c) ==
    /\ frame[c].pc = "run1"
    /\ \E rc \in {0, 1}, wrote \in BOOLEAN :
        LET proc == Exited(frame[c].procs[1], rc)
            out == proc.cmd[Len(proc.cmd)]
        IN  /\ rc = 0 => wrote
            /\ fs' = IF wrote THEN [fs EXCEPT ![out] = PaletteBy(c)] ELSE fs
            /\ frame' = [frame EXCEPT
                            ![c].procs = <<proc>>,
                            ![c].pc = IF rc = 0 THEN "pass2" ELSE "except",
                            ![c].err = IF rc = 0 THEN NoErr ELSE CalledProcessError(proc)]
    /\ UNCHANGED <<fs0, driverVars>>

\* line 88: subprocess.run(final_cmd) starts the encoder, which opens its inputs
Pass2_Spawn(c) ==
    /\ frame[c].pc = "pass2"
    /\ frame' = [frame EXCEPT
                    ![c].pc = "run2",
                    ![c].procs = Append(@, Running(final_cmd(c), fs[final_cmd(c)[5]]))]
    /\ UNCHANGED <<fs, fs0, driverVars>>

\* line 88: the encoder exits; it cannot succeed without its palette input
Pass2_Exit(c) ==
    /\ frame[c].pc = "run2"
    /\ \E rc \in {0, 1}, wrote \in BOOLEAN :
        LET proc == Exited(frame[c].procs[2], rc)
            out == proc.cmd[Len(proc.cmd)]
        IN  /\ rc = 0 => wrote /\ proc.palette_in.kind # "absent"
            /\ fs' = IF wrote THEN [fs EXCEPT ![out] = GifBy(c)] ELSE fs
            /\ frame' = [frame EXCEPT
                            ![c].procs = <<frame[c].procs[1], proc>>,
                            ![c].pc = IF rc = 0 THEN "remove" ELSE "except",
                            ![c].err = IF rc = 0 THEN NoErr ELSE CalledProcessError(proc)]
    /\ UNCHANGED <<fs0, driverVars>>

\* lines 85, 88: subprocess.run cannot start the encoder and raises OSError
SpawnError(c) ==
    /\ frame[c].pc \in {"pass1", "pass2"}
    /\ frame' = [frame EXCEPT ![c].pc = "except", ![c].err = SpawnFailed]
    /\ UNCHANGED <<fs, fs0, driverVars>>

\* lines 91-93: os.remove(palette_file) inside the try block, then return
RemovePalette(c) ==
    /\ frame[c].pc = "remove"
    /\ \E ok \in BOOLEAN :
        IF exists(palette_file(c)) /\ ok
        THEN /\ fs' = [fs EXCEPT ![palette_file(c)] = Absent]
             /\ frame' = [frame EXCEPT ![c].pc = "done",
                                       ![c].result = frame[c].output_file]
        ELSE /\ fs' = fs
             /\ frame' = [frame EXCEPT ![c].pc = "except",
                                       ![c].err = RemoveFailed(palette_file(c)),
                                       ![c].remove_failed = TRUE]
    /\ UNCHANGED <<fs0, driverVars>>

\* lines 94-96, 98 and 99-101, 103: the handler tests os.path.exists(palette_file)
\* and re-raises when there is nothing to remove
HandlerExists(c) ==
    /\ frame[c].pc = "except"
    /\ frame' = [frame EXCEPT
                    ![c].pc = IF exists(palette_file(c)) THEN "except_remove" ELSE "done"]
    /\ UNCHANGED <<fs, fs0, driverVars>>

\* the handler re-raising without removing the palette file
HandlerRemove_Keep(c) ==
    /\ frame[c].pc = "except_remove"
    /\ frame' = [frame EXCEPT ![c].pc = "done"]
    /\ UNCHANGED <<fs, fs0, driverVars>>

\* lines 97-98 and 102-103: os.remove(palette_file) in the handler, then raise;
\* an exception of os.remove replaces the one being handled
HandlerRemove(c) ==
    /\ frame[c].pc = "except_remove"
    /\ \E ok \in BOOLEAN :
        IF exists(palette_file(c)) /\ ok
        THEN /\ fs' = [fs EXCEPT ![palette_file(c)] = Absent]
             /\ frame' = [frame EXCEPT ![c].pc = "done"]
        ELSE /\ fs' = fs
             /\ frame' = [frame EXCEPT ![c].pc = "done",
                                       ![c].err = RemoveFailed(palette_file(c)),
                                       ![c].remove_failed = TRUE]
    /\ UNCHANGED <<fs0, driverVars>>

----------------------------------------------------------------------------
(* A single direct call of convert_video_to_gif with arbitrary arguments *)

DirectInputs == {"in/a.mp4", "in/b.mp4"}
DirectOutputs == {None, Some("out/first.gif")}
Widths == {None, Some(320), Some(480)}
FpsValues == {10, 15}
Qualities == {64, 90}
Loops == {0, 1}
Speeds == {5, 10, 20}

NoArgs == [output |-> None, width |-> None, fps |-> DefaultFps, quality |-> DefaultQuality,
           no_loop |-> FALSE, speed |-> DefaultSpeed]

IdleDriver ==
    /\ args = NoArgs
    /\ batch_lines = <<>>
    /\ input_files = <<>>
    /\ idx = 0
    /\ dpc = "none"
    /\ success_count = 0
    /\ processed_count = 0
    /\ attempted = <<>>
    /\ summary = <<>>

InitCall ==
    /\ mode = "direct"
    /\ IdleDriver
    /\ \E input_file \in DirectInputs, output_file \in DirectOutputs, width \in Widths,
          fps \in FpsValues, quality \in Qualities, loop \in Loops, speed \in Speeds :
        /\ frame = [c \in {1} |->
                        NewFrame(input_file, output_file, width, fps, quality, loop, speed)]
        /\ \E src, pal, out \in BOOLEAN :
            LET o == ResolveOutput(input_file, output_file)
            IN  fs = [p \in AllPaths |->
                        IF p = input_file THEN (IF src THEN Video ELSE Absent)
                        ELSE IF p = PaletteFile(o) THEN (IF pal THEN UserFile ELSE Absent)
                        ELSE IF p = o THEN (IF out THEN UserFile ELSE Absent)
                        ELSE IF p = "in/n.txt" THEN UserFile
                        ELSE IF p \in SourcePaths \ {"in/gone.mp4"} THEN Video
                        ELSE Absent]
    /\ fs0 = fs

NextCall ==
    \/ \E c \in DOMAIN frame : Enter(c)
    \/ \E c \in DOMAIN frame : Pass1_Spawn(c)
    \/ \E c \in DOMAIN frame : Pass1_Exit(c)
    \/ \E c \in DOMAIN frame : Pass2_Spawn(c)
    \/ \E c \in DOMAIN frame : Pass2_Exit(c)
    \/ \E c \in DOMAIN frame : SpawnError(c)
    \/ \E c \in DOMAIN frame : RemovePalette(c)
    \/ \E c \in DOMAIN frame : HandlerExists(c)
    \/ \E c \in DOMAIN frame : HandlerRemove(c)

SpecCall == InitCall /\ [][NextCall]_vars

----------------------------------------------------------------------------
(* main(): batch mode and directory mode *)

\* the directories that exist
ExistingDirs == {"in", "in/sub", "out"}

\* os.path.isdir
isdir(p) == p \in ExistingDirs

video_extensions == {".mp4", ".avi", ".mov", ".mkv", ".webm", ".flv", ".wmv", ".m4v"}

\* Path.suffix and Path.stem
suffix(p) == splitext(p)[2]
stem(p) == basename(splitext(p)[1])

\* line 297: the stripped lines of the batch file that are neither blank nor comments
ParseBatch(lines) ==
    SelectSeq([k \in 1..Len(lines) |-> strip(lines[k])],
              LAMBDA line : line # "" /\ ~startswith(line, "#"))

\* lines 323, 344: the loop value passed to convert_video_to_gif
loop_value == IF args.no_loop THEN 1 ELSE 0

\* lines 309-315: the output of a batch job
BatchOutput(input_file, n) ==
    IF args.output # None
    THEN IF isdir(args.output[1])
         THEN Some(join(args.output[1], basename(splitext(input_file)[1]) \o ".gif"))
         ELSE IF n = 1 THEN args.output ELSE None
    ELSE None

\* lines 375-376: the output of a directory job
DirOutput(file_path) ==
    LET output_dir == IF args.output # None THEN args.output[1] ELSE dirname(file_path)
    IN  Some(join(output_dir, stem(file_path) \o ".gif"))

\* the frame of a call once control is back in the driver: the locals of the
\* call are gone, the driver holds the returned path or the exception it caught
Popped(f) ==
    [f EXCEPT !.procs = <<>>,
              !.err = IF f.err.type = "" THEN NoErr
                      ELSE [type |-> f.err.type, cmd |-> <<>>, text |-> ""]]

\* lines 296-300: read the batch file
ReadBatch ==
    /\ mode = "batch"
    /\ dpc = "read"
    /\ input_files' = ParseBatch(batch_lines)
    /\ success_count' = 0
    /\ idx' = 1
    /\ dpc' = "loop"
    /\ UNCHANGED <<fs, fs0, frame, mode, args, batch_lines, processed_count, attempted, summary>>

\* a missing file that ends the loop instead of continuing it
BatchMissing_Abort ==
    /\ mode = "batch"
    /\ dpc = "loop"
    /\ idx <= Len(input_files)
    /\ ~exists(input_files[idx])
    /\ attempted' = Append(attempted, idx)
    /\ idx' = Len(input_files) + 1
    /\ UNCHANGED <<fs, fs0, frame, mode, args, batch_lines, input_files, dpc,
                   success_count, processed_count, summary>>

\* lines 301-306: the listed file does not exist; print and continue
BatchMissing ==
    /\ mode = "batch"
    /\ dpc = "loop"
    /\ idx <= Len(input_files)
    /\ ~exists(input_files[idx])
    /\ attempted' = Append(attempted, idx)
    /\ idx' = idx + 1
    /\ UNCHANGED <<fs, fs0, frame, mode, args, batch_lines, input_files, dpc,
                   success_count, processed_count, summary>>

\* a call that is started without being waited for
BatchCall_NoWait ==
    /\ mode = "batch"
    /\ dpc = "loop"
    /\ idx <= Len(input_files)
    /\ exists(input_files[idx])
    /\ attempted' = Append(attempted, idx)
    /\ frame' = [frame EXCEPT ![idx] =
                    NewFrame(input_files[idx], BatchOutput(input_files[idx], idx),
                             args.width, args.fps, args.quality, loop_value, args.speed)]
    /\ idx' = idx + 1
    /\ UNCHANGED <<fs, fs0, mode, args, batch_lines, input_files, dpc,
                   success_count, processed_count, summary>>

\* lines 301-325: the listed file exists; call convert_video_to_gif
BatchCall ==
    /\ mode = "batch"
    /\ dpc = "loop"
    /\ idx <= Len(input_files)
    /\ exists(input_files[idx])
    /\ attempted' = Append(attempted, idx)
    /\ frame' = [frame EXCEPT ![idx] =
                    NewFrame(input_files[idx], BatchOutput(input_files[idx], idx),
                             args.width, args.fps, args.quality, loop_value, args.speed)]
    /\ dpc' = "call"
    /\ UNCHANGED <<fs, fs0, mode, args, batch_lines, input_files, idx,
                   success_count, processed_count, summary>>

\* lines 327-331: the call returned (count it) or raised (print and go on)
BatchAfterCall ==
    /\ mode = "batch"
    /\ dpc = "call"
    /\ frame[idx].pc = "done"
    /\ success_count' = IF frame[idx].result # None THEN success_count + 1 ELSE success_count
    /\ frame' = [frame EXCEPT ![idx] = Popped(frame[idx])]
    /\ idx' = idx + 1
    /\ dpc' = "loop"
    /\ UNCHANGED <<fs, fs0, mode, args, batch_lines, input_files,
                   processed_count, attempted, summary>>

\* lines 333-335: the summary
BatchSummary ==
    /\ mode = "batch"
    /\ dpc = "loop"
    /\ idx > Len(input_files)
    /\ summary' = <<success_count, Len(input_files)>>
    /\ dpc' = "done"
    /\ UNCHANGED <<fs, fs0, frame, mode, args, batch_lines, input_files, idx,
                   success_count, processed_count, attempted>>

\* lines 399-404, 410-411: an entry that is not a video is passed over
DirSkip ==
    /\ mode = "directory"
    /\ dpc = "loop"
    /\ idx <= Len(input_files)
    /\ suffix(input_files[idx]) \notin video_extensions
    /\ idx' = idx + 1
    /\ UNCHANGED <<fs, fs0, frame, mode, args, batch_lines, input_files, dpc,
                   success_count, processed_count, attempted, summary>>

\* lines 404-406, 411-413 and 373-387: count the video and call convert_video_to_gif
DirCall ==
    /\ mode = "directory"
    /\ dpc = "loop"
    /\ idx <= Len(input_files)
    /\ suffix(input_files[idx]) \in video_extensions
    /\ processed_count' = processed_count + 1
    /\ attempted' = Append(attempted, idx)
    /\ frame' = [frame EXCEPT ![idx] =
                    NewFrame(input_files[idx], DirOutput(input_files[idx]),
                             args.width, args.fps, args.quality, loop_value, args.speed)]
    /\ dpc' = "call"
    /\ UNCHANGED <<fs, fs0, mode, args, batch_lines, input_files, idx,
                   success_count, summary>>

\* lines 388-393 and 406-407, 413-414: process_file returns True or False
DirAfterCall ==
    /\ mode = "directory"
    /\ dpc = "call"
    /\ frame[idx].pc = "done"
    /\ success_count' = IF frame[idx].result # None THEN success_count + 1 ELSE success_count
    /\ frame' = [frame EXCEPT ![idx] = Popped(frame[idx])]
    /\ idx' = idx + 1
    /\ dpc' = "loop"
    /\ UNCHANGED <<fs, fs0, mode, args, batch_lines, input_files,
                   processed_count, attempted, summary>>

\* line 416: the summary
DirSummary ==
    /\ mode = "directory"
    /\ dpc = "loop"
    /\ idx > Len(input_files)
    /\ summary' = <<success_count, processed_count>>
    /\ dpc' = "done"
    /\ UNCHANGED <<fs, fs0, frame, mode, args, batch_lines, input_files, idx,
                   success_count, processed_count, attempted>>

\* the lines a batch file is made of
BatchLines == {"in/a.mp4\n", " in/a.mov\n", "in/gone.mp4\n", " # note\n"}
BatchOutputs == {None, Some("out"), Some("out/first.gif")}

\* the entries a directory walk yields
DirEntries == {"in/a.mp4", "in/a.mov", "in/n.txt", "in/sub/a.mp4"}
DirOutputs == {None, Some("out")}

SeqsUpTo(S, n) == UNION {[1..k -> S] : k \in 1..n}

\* every source but in/gone.mp4 exists, nothing else does
SourcesOnly ==
    [p \in AllPaths |-> IF p = "in/n.txt" THEN UserFile
                        ELSE IF p \in SourcePaths \ {"in/gone.mp4"} THEN Video
                        ELSE Absent]

InitBatch ==
    /\ mode = "batch"
    /\ batch_lines \in SeqsUpTo(BatchLines, MaxJobs)
    /\ \E output \in BatchOutputs : args = [NoArgs EXCEPT !.output = output]
    /\ input_files = <<>>
    /\ idx = 0
    /\ dpc = "read"

InitDirectory ==
    /\ mode = "directory"
    /\ batch_lines \in {e \in SeqsUpTo(DirEntries, MaxJobs) :
                            \A j, k \in 1..Len(e) : j # k => e[j] # e[k]}
    /\ \E output \in DirOutputs : args = [NoArgs EXCEPT !.output = output]
    /\ input_files = batch_lines
    /\ idx = 1
    /\ dpc = "loop"

InitDriver ==
    /\ InitBatch \/ InitDirectory
    /\ success_count = 0
    /\ processed_count = 0
    /\ attempted = <<>>
    /\ summary = <<>>
    /\ frame = [c \in 1..Len(batch_lines) |-> IdleFrame]
    /\ fs = SourcesOnly
    /\ fs0 = fs

NextDriver ==
    \/ ReadBatch
    \/ BatchMissing
    \/ BatchCall
    \/ BatchAfterCall
    \/ BatchSummary
    \/ DirSkip
    \/ DirCall
    \/ DirAfterCall
    \/ DirSummary
    \/ NextCall

SpecDriver == InitDriver /\ [][NextDriver]_vars

----------------------------------------------------------------------------
(* Calls of convert_video_to_gif running concurrently *)

ConcInputs == {"in/a.mp4", "in/a.mov", "in/b.mp4"}

\* the two concurrent callers
Callers == {1, 2}

InitConc ==
    /\ mode = "direct"
    /\ IdleDriver
    /\ frame \in [Callers ->
                    {NewFrame(input_file, None, None, DefaultFps, DefaultQuality, 0,
                              DefaultSpeed) : input_file \in ConcInputs}]
    /\ fs = SourcesOnly
    /\ fs0 = fs

SpecConc == InitConc /\ [][NextCall]_vars

----------------------------------------------------------------------------
(* Outcome of a call *)

Ended(c) == frame[c].pc = "done"
Returned(c) == Ended(c) /\ frame[c].result # None
Raised(c) == Ended(c) /\ frame[c].err.type # ""
SourceExisted(c) == fs0[frame[c].input_file].kind # "absent"
FailedProcs(c) == {k \in 1..Len(frame[c].procs) : frame[c].procs[k].rc > 0}
BothPassesSucceeded(c) ==
    /\ Len(frame[c].procs) = 2
    /\ frame[c].procs[1].rc = 0
    /\ frame[c].procs[2].rc = 0

----------------------------------------------------------------------------
(* Claims about a single call *)

\* C1 (as stated): a call on an existing source ends by returning the output
\* path or by raising, and no file is left at the palette path after it ended.
C1_NoPaletteAfterCall ==
    \A c \in DOMAIN frame :
        (Ended(c) /\ SourceExisted(c)) =>
            /\ Returned(c) # Raised(c)
            /\ ~exists(palette_file(c))

\* C1 (amended): a call on an existing source ends by returning the output path
\* or by raising, and a file is left at the palette path after it ended only
\* when an os.remove of the palette file failed during the call.
C1_NoPaletteUnlessRemoveFailed ==
    \A c \in DOMAIN frame :
        (Ended(c) /\ SourceExisted(c)) =>
            /\ Returned(c) # Raised(c)
            /\ Returned(c) => frame[c].result = Some(ResolveOutput(frame[c].input_file,
                                                                   frame[c].output_file))
            /\ exists(palette_file(c)) => frame[c].remove_failed

\* a call whose pass 2 failed after pass 1 wrote the palette, and whose handler
\* removed the palette
C1_Witness ==
    \E c \in DOMAIN frame :
        /\ Raised(c)
        /\ Len(frame[c].procs) = 2
        /\ frame[c].procs[2].rc = 1
        /\ ~frame[c].remove_failed
        /\ ~exists(palette_file(c))

\* C2: a call on a missing source spawns no process and leaves the filesystem
\* as it was, at every point of the call, and ends with the input-not-found
\* error.
C2_MissingSourceFailsFast ==
    \A c \in DOMAIN frame :
        ~SourceExisted(c) =>
            /\ frame[c].procs = <<>>
            /\ fs = fs0
            /\ frame[c].pc \in {"enter", "done"}
            /\ Ended(c) => /\ frame[c].err = InputNotFound(frame[c].input_file)
                           /\ frame[c].result = None

C2_Witness ==
    \E c \in DOMAIN frame :
        /\ Ended(c)
        /\ ~SourceExisted(c)
        /\ frame[c].err.type = "FileNotFoundError"

\* C3: the processes of a call never run in parallel, pass 2 is started only
\* after pass 1 has exited with status zero, and a call that returned has
\* spawned exactly pass 1 then pass 2.
C3_PassesSequential ==
    \A c \in DOMAIN frame :
        LET p == frame[c].procs
        IN  /\ Len(p) <= 2
            /\ Cardinality({k \in 1..Len(p) : p[k].rc = -1}) <= 1
            /\ Len(p) >= 1 => p[1].cmd[Len(p[1].cmd)] = palette_file(c)
            /\ Len(p) = 2 => /\ p[1].rc = 0
                             /\ p[2].cmd[Len(p[2].cmd)] = frame[c].output_file[1]
                             /\ p[2].cmd[5] = palette_file(c)
            /\ Returned(c) => BothPassesSucceeded(c)

C3_Witness ==
    \E c \in DOMAIN frame : Returned(c) /\ Len(frame[c].procs) = 2

\* C4: when an encoder invocation of a call exited non-zero, the call ends
\* with the CalledProcessError of that invocation, carrying its diagnostic
\* stream, and returns nothing; a call returns the output path only when both
\* invocations exited with status zero.
C4_FirstFailureSurfaces ==
    \A c \in DOMAIN frame :
        Ended(c) =>
            /\ \A k \in FailedProcs(c) :
                /\ frame[c].result = None
                /\ frame[c].err = CalledProcessError(frame[c].procs[k])
                /\ frame[c].err.text = Diagnostic(frame[c].procs[k].cmd)
            /\ Returned(c) => BothPassesSucceeded(c)

\* C5: a failure of os.remove on the palette file does not change the outcome
\* of the call: with both passes successful the call returns the output path,
\* and with a failed pass the call raises that pass's CalledProcessError.
C5_RemoveFailureNotEscalated ==
    \A c \in DOMAIN frame :
        (Ended(c) /\ frame[c].remove_failed) =>
            /\ BothPassesSucceeded(c) => frame[c].result = frame[c].output_file
            /\ \A k \in FailedProcs(c) :
                frame[c].err = CalledProcessError(frame[c].procs[k])

----------------------------------------------------------------------------
(* Claims about the filter chain *)

IsSetpts(stage) == startswith(stage, "setpts=")
IsScale(stage) == startswith(stage, "scale=")
IsFps(stage) == startswith(stage, "fps=")
StageRank(stage) == IF IsSetpts(stage) THEN 1 ELSE IF IsScale(stage) THEN 2
                    ELSE IF IsFps(stage) THEN 3 ELSE 0
CountStages(chain, P(_)) == Cardinality({k \in 1..Len(chain) : P(chain[k])})

\* C6: the filter chain holds a setpts stage iff speed is not 1.0, a
\* scale=<width>:-1 stage iff width is set, and exactly one fps=<fps> stage,
\* which is last; the stages are in this order and none appears twice.
C6_FilterChainShape ==
    \A c \in DOMAIN frame :
        LET f == frame[c]
            chain == FilterChain(f.width, f.fps, f.speed)
            n == Len(chain)
        IN  /\ n >= 1
            /\ \A k \in 1..n : StageRank(chain[k]) # 0
            /\ \A j, k \in 1..n : j < k => StageRank(chain[j]) < StageRank(chain[k])
            /\ CountStages(chain, IsSetpts) = IF f.speed # 10 THEN 1 ELSE 0
            /\ CountStages(chain, IsScale) = IF f.width # None THEN 1 ELSE 0
            /\ CountStages(chain, IsFps) = 1
            /\ chain[n] = "fps=" \o ToString(f.fps)
            /\ f.width # None =>
                \E k \in 1..n : startswith(chain[k], "scale=" \o ToString(f.width[1]) \o ":-1")
            /\ Len(f.procs) = 2 =>
                f.procs[2].cmd[7] = strjoin(",", chain) \o "[x];[x][1:v]paletteuse"

\* pass 2 was spawned with speed 2.0, width 320 and 15 frames per second
C6_Witness ==
    \E c \in DOMAIN frame :
        /\ Len(frame[c].procs) = 2
        /\ frame[c].procs[2].cmd[7]
             = "setpts=PTS/2.0,scale=320:-1:flags=lanczos,fps=15[x];[x][1:v]paletteuse"

\* C7: palette_filters is the filter chain without its fps stage, the other
\* stages kept in order, and pass 1 runs it followed by the palettegen stage
\* with max_colors=quality, also when palette_filters is empty.
C7_PaletteFiltersDropFps ==
    \A c \in DOMAIN frame :
        LET f == frame[c]
            chain == FilterChain(f.width, f.fps, f.speed)
            pf == PaletteFilters(chain)
            palettegen == "palettegen=max_colors=" \o ToString(f.quality)
        IN  /\ pf = SubSeq(chain, 1, Len(chain) - 1)
            /\ \A k \in 1..Len(pf) : ~IsFps(pf[k])
            /\ Len(f.procs) >= 1 =>
                f.procs[1].cmd[5] = strjoin(",", pf \o <<palettegen>>)

\* pass 1 was spawned with width 480, quality 90 and speed 1.0
C7_Witness ==
    \E c \in DOMAIN frame :
        /\ Len(frame[c].procs) >= 1
        /\ frame[c].fps = 15
        /\ frame[c].procs[1].cmd[5] = "scale=480:-1:flags=lanczos,palettegen=max_colors=90"

----------------------------------------------------------------------------
(* Claims about the drivers *)

Active(c) == frame[c].pc \notin {"idle", "done"}
PalettesOnDisk == {p \in AllPaths : fs[p].kind = "palette"}
ReadOwnPalette(c) ==
    Len(frame[c].procs) = 2 => frame[c].procs[2].palette_in = PaletteBy(c)

\* C8: a batch run that has printed its summary has entered the loop body for
\* every listed job, in list order, whatever failed, and the summary gives the
\* number of jobs whose call returned a path out of the number of listed jobs.
C8_BatchContinuesAndCounts ==
    (mode = "batch" /\ dpc = "done") =>
        /\ attempted = [k \in 1..Len(input_files) |-> k]
        /\ summary = <<Cardinality({c \in DOMAIN frame : Returned(c)}), Len(input_files)>>
        /\ \A k \in 1..Len(input_files) :
            /\ exists(input_files[k]) => Ended(k) /\ frame[k].input_file = input_files[k]
            /\ ~exists(input_files[k]) => frame[k].pc = "idle"

\* three listed files, the second missing, the other two converted: 2 of 3
C8_Witness ==
    /\ mode = "batch"
    /\ dpc = "done"
    /\ Len(input_files) = 3
    /\ ~exists(input_files[2])
    /\ Returned(1)
    /\ Returned(3)
    /\ summary = <<2, 3>>

\* C9 (as stated): the jobs of a batch or directory run never overlap, at most
\* one palette artifact is on disk at any moment, and the palette a job's pass 2
\* reads is the one its own pass 1 wrote.
C9_OnePaletteAtATime ==
    mode \in {"batch", "directory"} =>
        /\ Cardinality({c \in DOMAIN frame : Active(c)}) <= 1
        /\ Cardinality(PalettesOnDisk) <= 1
        /\ \A c \in DOMAIN frame : ReadOwnPalette(c)

\* C9 (amended): the jobs of a batch or directory run never overlap, every
\* palette artifact on disk belongs to the job that is running or to a job whose
\* os.remove of it failed, and the palette a job's pass 2 reads is the one its
\* own pass 1 wrote.
C9_PaletteOwnedByRunningJob ==
    mode \in {"batch", "directory"} =>
        /\ Cardinality({c \in DOMAIN frame : Active(c)}) <= 1
        /\ \A c \in DOMAIN frame : Active(c) => c = idx /\ dpc = "call"
        /\ \A p \in PalettesOnDisk :
            /\ fs[p].by \in DOMAIN frame
            /\ Active(fs[p].by) \/ frame[fs[p].by].remove_failed
        /\ Cardinality({p \in PalettesOnDisk : ~frame[fs[p].by].remove_failed}) <= 1
        /\ \A c \in DOMAIN frame : ReadOwnPalette(c)

\* two jobs with the same output stem have both been converted
C9_Witness ==
    /\ mode \in {"batch", "directory"}
    /\ \E j, k \in DOMAIN frame :
        /\ j < k
        /\ Returned(j)
        /\ Returned(k)
        /\ palette_file(j) = palette_file(k)

----------------------------------------------------------------------------
(* Claims about concurrent calls *)

OutputStem(c) == splitext(ResolveOutput(frame[c].input_file, frame[c].output_file))[1]

\* pass 2 of call c was started on a palette that its pass 1 did not write
Interfered(c) ==
    /\ Len(frame[c].procs) = 2
    /\ frame[c].procs[2].palette_in # PaletteBy(c)

\* C10: calls share a palette path exactly when their output stems are equal,
\* and pass 2 of a call finds the palette of its pass 1 deleted or overwritten
\* only when another call has the same output stem.
C10_RaceOnlyOnSharedStem ==
    \A c \in DOMAIN frame :
        /\ \A d \in DOMAIN frame :
            (OutputStem(c) = OutputStem(d))
                <=> (PaletteFile(ResolveOutput(frame[c].input_file, frame[c].output_file))
                        = PaletteFile(ResolveOutput(frame[d].input_file, frame[d].output_file)))
        /\ Len(frame[c].procs) >= 1 =>
            frame[c].procs[1].cmd[7] = OutputStem(c) \o "_palette.png"
        /\ Interfered(c) => \E d \in DOMAIN frame \ {c} : OutputStem(d) = OutputStem(c)

\* two calls with the same output stem: pass 1 of c overwrote the palette of
\* d before pass 2 of d opened it, and the cleanup of d deleted the palette
\* before pass 2 of c opened it
C10_Witness ==
    \E c, d \in DOMAIN frame :
        /\ c # d
        /\ OutputStem(c) = OutputStem(d)
        /\ frame[c].input_file # frame[d].input_file
        /\ Len(frame[c].procs) = 2
        /\ Len(frame[d].procs) = 2
        /\ frame[c].procs[1].rc = 0
        /\ frame[d].procs[1].rc = 0
        /\ frame[d].procs[2].palette_in = PaletteBy(c)
        /\ frame[c].procs[2].palette_in = Absent
        /\ Ended(d)

====
